---- MODULE Spec2Model ----
(***************************************************************************)
(* Model of src/src/main.rs: create_chunk_mesh (generation, neighbour      *)
(* classification, quad emission, statistics) and create_cube_mesh.        *)
(*                                                                         *)
(* Number representations                                                  *)
(*   i32      an integer in -2^31..2^31-1                                  *)
(*   wide     <<hi, lo>> standing for hi * B16 + lo, lo in 0..B16-1; used  *)
(*            for exact results that do not fit an i32                     *)
(*   f32      a wide number of half units (value * 2), so that x - 0.5 is  *)
(*            hi * B16 + lo = 2x - 1; rounding to 24 significant bits is   *)
(*            modelled by as_f32 and F32Offset                             *)
(*   noise    f64 samples in thousandths (0.3 is 300)                      *)
(***************************************************************************)
EXTENDS Integers, Sequences, FiniteSets, TLC

\* ---- bounds of the model ----
MaxChunkSize == 2
\* only the first MaxDirtCells samples of a chunk may exceed the threshold
MaxDirtCells == 6

\* ---- program constants ----
NOISE_THRESHOLD == 300

I32_MIN == (-2147483647) - 1
B16 == 65536

\* chunk sizes explored (the source fixes CHUNK_SIZE = 16)
ChunkSizes == 0..MaxChunkSize

\* arguments create_chunk_mesh is called with
ChunkPositions ==
  { <<0, 0, 0>>, <<1, -2, 3>>, <<1073741824, 0, 0>>,
    <<0, -1073741825, 0>>, <<0, 0, 715827882>> }

\* values Perlin::get may return, in thousandths
NoiseValues == { -1000, 300, 1000 }

\* ---- exact (wide) arithmetic ----
Wide(n) == <<n \div B16, n % B16>>

WMul(w, k) == LET p == w[2] * k IN <<w[1] * k + (p \div B16), p % B16>>

WAdd(w, k) == LET s == w[2] + k IN <<w[1] + (s \div B16), s % B16>>

WNeg(w) == IF w[2] = 0 THEN <<0 - w[1], 0>> ELSE <<(0 - w[1]) - 1, B16 - w[2]>>

InI32(w) == w[1] \in -32768..32767

\* two's complement wrap of an exact result to 32 bits
Wrap(w) == <<((w[1] + 32768) % B16) - 32768, w[2]>>

ToInt(w) == w[1] * B16 + w[2]

\* i32 `*` : exact product, whether it overflowed, and the wrapped result
I32Mul(a, k) ==
  LET e == WMul(Wide(a), k)
  IN [overflow |-> ~InI32(e), value |-> ToInt(Wrap(e)), exact |-> e]

\* i32 `+` with a small non-negative left operand
I32Add(l, b) ==
  LET e == WAdd(Wide(b), l)
  IN [overflow |-> ~InI32(e), value |-> ToInt(Wrap(e)), exact |-> e]

VARIABLES
  CHUNK_SIZE,        \* the chunk side length
  chunk_position,    \* argument of create_chunk_mesh
  overflow_checks,   \* build profile: TRUE panics on overflow, FALSE wraps
  pc,                \* position inside create_chunk_mesh
  x, y, z,           \* loop counters of the generation / classification loops
  noise_value,       \* loop local: <<sample>> once Perlin was sampled
  noise_point,       \* loop local: point sampled, in units of WORLD_SCALE
  chunk_data,        \* Vec<Block>
  cursor,            \* position of `for block in &chunk_data`
  vertices, indices, normals, uvs,
  chunk_mesh,        \* the Mesh returned
  stats,             \* air_blocks, dirt_blocks, average intersections
  fault,             \* panic raised, if any
  cube_mesh          \* <<mesh>> once create_cube_mesh has returned

vars == <<CHUNK_SIZE, chunk_position, overflow_checks, pc, x, y, z,
          noise_value, noise_point, chunk_data, cursor, vertices, indices,
          normals, uvs, chunk_mesh, stats, fault, cube_mesh>>

None == "none"

EmptyMesh == [positions |-> <<>>, normals |-> <<>>, uvs |-> <<>>, indices |-> <<>>]

Init ==
  /\ CHUNK_SIZE \in ChunkSizes
  /\ chunk_position \in ChunkPositions
  /\ overflow_checks \in BOOLEAN
  /\ pc = "generate"
  /\ x = 0 /\ y = 0 /\ z = 0
  /\ noise_value = <<>>
  /\ noise_point = <<>>
  /\ chunk_data = <<>>
  /\ cursor = 0
  /\ vertices = <<>> /\ indices = <<>> /\ normals = <<>> /\ uvs = <<>>
  /\ chunk_mesh = EmptyMesh
  /\ stats = None
  /\ fault = None
  /\ cube_mesh = <<>>

\* ---- generation ----

\* scaled_x = x as i32 + (chunk_position.x * CHUNK_SIZE as i32)
Scaled(l, c) ==
  LET m == I32Mul(c, CHUNK_SIZE)
      s == I32Add(l, m.value)
  IN [fault |-> IF m.overflow THEN "multiply_overflow"
                ELSE IF s.overflow THEN "add_overflow" ELSE None,
      value |-> s.value]

\* if noise_value > NOISE_THRESHOLD { Dirt } else { Air }
BlockTypeOf_ge(n) == IF n >= NOISE_THRESHOLD THEN "Dirt" ELSE "Air"

BlockTypeOf(n) == IF n > NOISE_THRESHOLD THEN "Dirt" ELSE "Air"

Block(t, p) == [block_type |-> t, block_intersections |-> <<>>, block_position |-> p]

DirtCount == Cardinality({ n \in 1..Len(chunk_data) : chunk_data[n].block_type = "Dirt" })

\* successor of (x, y, z) in `for x { for y { for z {` order
NextXYZ ==
  IF z + 1 < CHUNK_SIZE THEN <<x, y, z + 1>>
  ELSE IF y + 1 < CHUNK_SIZE THEN <<x, y + 1, 0>>
  ELSE <<x + 1, 0, 0>>

Advance ==
  /\ x' = NextXYZ[1]
  /\ y' = NextXYZ[2]
  /\ z' = NextXYZ[3]

Generate ==
  /\ pc = "generate"
  /\ x < CHUNK_SIZE
  /\ LET sx == Scaled(x, chunk_position[1])
         sy == Scaled(y, chunk_position[2])
         sz == Scaled(z, chunk_position[3])
         f  == IF sx.fault # None THEN sx.fault
               ELSE IF sy.fault # None THEN sy.fault ELSE sz.fault
         p  == <<sx.value, sy.value, sz.value>>
     IN IF f # None /\ overflow_checks
        THEN /\ pc' = "panicked"
             /\ fault' = f
             /\ UNCHANGED <<x, y, z, noise_value, noise_point, chunk_data>>
        ELSE /\ \E n \in NoiseValues :
                  /\ (BlockTypeOf(n) = "Dirt") => Len(chunk_data) < MaxDirtCells
                  /\ noise_value' = <<n>>
                  /\ chunk_data' = Append(chunk_data, Block(BlockTypeOf(n), p))
             /\ noise_point' = p
             /\ Advance
             /\ UNCHANGED <<pc, fault>>
  /\ UNCHANGED <<CHUNK_SIZE, chunk_position, overflow_checks, cursor, vertices,
                 indices, normals, uvs, chunk_mesh, stats, cube_mesh>>

GenerateDone ==
  /\ pc = "generate"
  /\ x >= CHUNK_SIZE
  /\ pc' = "classify"
  /\ x' = 0 /\ y' = 0 /\ z' = 0
  /\ noise_value' = <<>>
  /\ noise_point' = <<>>
  /\ UNCHANGED <<CHUNK_SIZE, chunk_position, overflow_checks, chunk_data, cursor,
                 vertices, indices, normals, uvs, chunk_mesh, stats, fault,
                 cube_mesh>>

\* ---- classification ----

\* let index = x + (y * CHUNK_SIZE) + (z * CHUNK_SIZE * CHUNK_SIZE)
Index(a, b, c) == a + (b * CHUNK_SIZE) + (c * CHUNK_SIZE * CHUNK_SIZE)

\* `v < CHUNK_SIZE - 1` in usize; with CHUNK_SIZE = 0 the subtraction wraps
\* to usize::MAX in a build without overflow checks
LessLast_offByOne(v) == IF CHUNK_SIZE = 0 THEN TRUE ELSE v < CHUNK_SIZE

LessLast(v) == IF CHUNK_SIZE = 0 THEN TRUE ELSE v < CHUNK_SIZE - 1

\* the neighbour tests with the Bottom read taken from the Left one
NeighbourChecks_copyPaste(a, b, c) ==
  LET i == Index(a, b, c)
  IN << [face |-> "Top",    inside |-> LessLast(b), index |-> i + CHUNK_SIZE],
        [face |-> "Bottom", inside |-> b > 0,       index |-> i - 1],
        [face |-> "Left",   inside |-> a > 0,       index |-> i - 1],
        [face |-> "Right",  inside |-> LessLast(a), index |-> i + 1],
        [face |-> "Front",  inside |-> LessLast(c), index |-> i + CHUNK_SIZE * CHUNK_SIZE],
        [face |-> "Back",   inside |-> c > 0,       index |-> i - CHUNK_SIZE * CHUNK_SIZE] >>

\* the six neighbour tests of a cell, in source order: the face pushed, the
\* edge test, and the cell of chunk_data read when the test passes
NeighbourChecks(a, b, c) ==
  LET i == Index(a, b, c)
  IN << [face |-> "Top",    inside |-> LessLast(b), index |-> i + CHUNK_SIZE],
        [face |-> "Bottom", inside |-> b > 0,       index |-> i - CHUNK_SIZE],
        [face |-> "Left",   inside |-> a > 0,       index |-> i - 1],
        [face |-> "Right",  inside |-> LessLast(a), index |-> i + 1],
        [face |-> "Front",  inside |-> LessLast(c), index |-> i + CHUNK_SIZE * CHUNK_SIZE],
        [face |-> "Back",   inside |-> c > 0,       index |-> i - CHUNK_SIZE * CHUNK_SIZE] >>

\* chunk_data[i] is in bounds (usize index, 0-based)
InBounds(i) == i >= 0 /\ i < Len(chunk_data)

\* the faces pushed for the cell: tests that pass and read a non-Air block
RECURSIVE Intersections(_, _)
Intersections(checks, k) ==
  IF k > Len(checks) THEN <<>>
  ELSE LET c == checks[k]
       IN IF c.inside /\ chunk_data[c.index + 1].block_type # "Air"
          THEN <<c.face>> \o Intersections(checks, k + 1)
          ELSE Intersections(checks, k + 1)

Classify ==
  /\ pc = "classify"
  /\ x < CHUNK_SIZE
  /\ LET i == Index(x, y, z)
         checks == NeighbourChecks(x, y, z)
     IN IF ~InBounds(i)
        THEN /\ pc' = "panicked"
             /\ fault' = "index_out_of_bounds"
             /\ UNCHANGED <<x, y, z, chunk_data>>
        ELSE IF chunk_data[i + 1].block_type = "Air"
        THEN /\ Advance
             /\ UNCHANGED <<pc, fault, chunk_data>>
        ELSE IF CHUNK_SIZE = 0 /\ overflow_checks
        THEN /\ pc' = "panicked"
             /\ fault' = "subtract_overflow"
             /\ UNCHANGED <<x, y, z, chunk_data>>
        ELSE IF \E k \in 1..Len(checks) : checks[k].inside /\ ~InBounds(checks[k].index)
        THEN /\ pc' = "panicked"
             /\ fault' = "index_out_of_bounds"
             /\ UNCHANGED <<x, y, z, chunk_data>>
        ELSE /\ chunk_data' = [chunk_data EXCEPT ![i + 1].block_intersections =
                                 @ \o Intersections(checks, 1)]
             /\ Advance
             /\ UNCHANGED <<pc, fault>>
  /\ UNCHANGED <<CHUNK_SIZE, chunk_position, overflow_checks, noise_value,
                 noise_point, cursor, vertices, indices, normals, uvs,
                 chunk_mesh, stats, cube_mesh>>

ClassifyDone ==
  /\ pc = "classify"
  /\ x >= CHUNK_SIZE
  /\ pc' = "mesh"
  /\ cursor' = 0
  /\ vertices' = <<>> /\ indices' = <<>> /\ normals' = <<>> /\ uvs' = <<>>
  /\ UNCHANGED <<CHUNK_SIZE, chunk_position, overflow_checks, x, y, z,
                 noise_value, noise_point, chunk_data, chunk_mesh, stats, fault,
                 cube_mesh>>

\* ---- f32 conversions ----

F32_EXACT == 16777216

\* `n as f32` for an i32: nearest value with 24 significant bits, ties to even
as_f32(n) ==
  IF n >= (0 - F32_EXACT) /\ n <= F32_EXACT THEN Wide(2 * n)
  ELSE IF n = I32_MIN THEN <<0 - B16, 0>>
  ELSE LET a  == IF n < 0 THEN 0 - n ELSE n
           u  == CHOOSE u \in {2, 4, 8, 16, 32, 64, 128} :
                   (a \div u) \in 8388608..16777215
           q  == a \div u
           r  == a % u
           qr == IF 2 * r > u \/ (2 * r = u /\ q % 2 = 1) THEN q + 1 ELSE q
           m  == WMul(Wide(qr), 2 * u)
       IN IF n < 0 THEN WNeg(m) ELSE m

\* f32 `f - 0.5` (d = -1) and `f + 0.5` (d = 1) for an integer-valued f
F32Offset(f, d) ==
  IF f[1] \in -513..512
  THEN LET h == ToInt(f) + d
           a == IF h < 0 THEN 0 - h ELSE h
       IN IF a <= F32_EXACT THEN Wide(h)
          ELSE IF a < 2 * F32_EXACT
               THEN Wide(IF (h + 1) % 4 = 0 THEN h + 1 ELSE h - 1)
               ELSE f
  ELSE f

\* ---- quad emission ----

\* the four vertices pushed for a block
QuadVertices(p) ==
  LET fx == as_f32(p[1])
      fy == as_f32(p[2])
      fz == as_f32(p[3])
  IN << <<F32Offset(fx, -1), F32Offset(fy, -1), F32Offset(fz, -1)>>,
        <<F32Offset(fx, 1),  F32Offset(fy, -1), F32Offset(fz, -1)>>,
        <<F32Offset(fx, 1),  F32Offset(fy, 1),  F32Offset(fz, -1)>>,
        <<F32Offset(fx, -1), F32Offset(fy, 1),  F32Offset(fz, -1)>> >>

\* indices pushed for a quad whose first vertex is i
QuadIndices_skew(i) == <<i, i + 1, i + 2, i, i + 2, i + 4>>

QuadIndices(i) == <<i, i + 1, i + 2, i, i + 2, i + 3>>

QuadNormals == << <<0, 1, 0>>, <<0, 1, 0>>, <<0, 1, 0>>, <<0, 1, 0>> >>

QuadUvs == << <<0, 0>>, <<1, 0>>, <<1, 1>>, <<0, 1>> >>

EmitQuad ==
  /\ pc = "mesh"
  /\ cursor < Len(chunk_data)
  /\ LET block == chunk_data[cursor + 1]
     IN IF block.block_intersections = <<>>
        THEN LET vs == vertices \o QuadVertices(block.block_position)
                 i  == Len(vs) - 4
             IN /\ vertices' = vs
                /\ indices' = indices \o QuadIndices(i)
                /\ normals' = normals \o QuadNormals
                /\ uvs' = uvs \o QuadUvs
        ELSE UNCHANGED <<vertices, indices, normals, uvs>>
  /\ cursor' = cursor + 1
  /\ UNCHANGED <<CHUNK_SIZE, chunk_position, overflow_checks, pc, x, y, z,
                 noise_value, noise_point, chunk_data, chunk_mesh, stats, fault,
                 cube_mesh>>

\* insert_attribute x3, set_indices
MeshDone ==
  /\ pc = "mesh"
  /\ cursor >= Len(chunk_data)
  /\ chunk_mesh' = [positions |-> vertices, normals |-> normals, uvs |-> uvs,
                    indices |-> indices]
  /\ pc' = "stats"
  /\ UNCHANGED <<CHUNK_SIZE, chunk_position, overflow_checks, x, y, z,
                 noise_value, noise_point, chunk_data, cursor, vertices, indices,
                 normals, uvs, stats, fault, cube_mesh>>

\* ---- statistics ----

RECURSIVE SumIntersections(_)
SumIntersections(k) ==
  IF k = 0 THEN 0
  ELSE Len(chunk_data[k].block_intersections) + SumIntersections(k - 1)

\* f64 `a / b` of two counts: NaN for 0.0 / 0.0, otherwise the quotient,
\* kept as the pair of its operands
F64Div(a, b) ==
  [class |-> IF b # 0 THEN "finite" ELSE IF a = 0 THEN "NaN" ELSE "infinite",
   numerator |-> a, denominator |-> b]

Stats ==
  /\ pc = "stats"
  /\ stats' = [air_blocks |-> Len(chunk_data) - DirtCount,
               dirt_blocks |-> DirtCount,
               average_intersections |->
                 F64Div(SumIntersections(Len(chunk_data)), Len(chunk_data))]
  /\ pc' = "done"
  /\ UNCHANGED <<CHUNK_SIZE, chunk_position, overflow_checks, x, y, z,
                 noise_value, noise_point, chunk_data, cursor, vertices, indices,
                 normals, uvs, chunk_mesh, fault, cube_mesh>>

\* ---- create_cube_mesh ----

\* an [x, y, z] of halves: V(-1, 1, -1) is [-0.5, 0.5, -0.5]
V(a, b, c) == <<Wide(a), Wide(b), Wide(c)>>

CubePositions ==
  << V(-1, 1, -1),  V(1, 1, -1),  V(1, 1, 1),   V(-1, 1, 1),
     V(-1, -1, -1), V(1, -1, -1), V(1, -1, 1),  V(-1, -1, 1),
     V(1, -1, -1),  V(1, -1, 1),  V(1, 1, 1),   V(1, 1, -1),
     V(-1, -1, -1), V(-1, -1, 1), V(-1, 1, 1),  V(-1, 1, -1),
     V(-1, -1, 1),  V(-1, 1, 1),  V(1, 1, 1),   V(1, -1, 1),
     V(-1, -1, -1), V(-1, 1, -1), V(1, 1, -1),  V(1, -1, -1) >>

CubeUvs ==
  << <<0, 0>>, <<1, 0>>, <<1, 1>>, <<0, 1>>,
     <<0, 0>>, <<1, 0>>, <<1, 1>>, <<0, 1>>,
     <<0, 0>>, <<1, 0>>, <<1, 1>>, <<0, 1>>,
     <<0, 0>>, <<1, 0>>, <<1, 1>>, <<0, 1>>,
     <<0, 0>>, <<1, 0>>, <<1, 1>>, <<0, 1>>,
     <<0, 0>>, <<1, 0>>, <<1, 1>>, <<0, 1>> >>

CubeNormals ==
  << <<0, 1, 0>>,  <<0, 1, 0>>,  <<0, 1, 0>>,  <<0, 1, 0>>,
     <<0, -1, 0>>, <<0, -1, 0>>, <<0, -1, 0>>, <<0, -1, 0>>,
     <<1, 0, 0>>,  <<1, 0, 0>>,  <<1, 0, 0>>,  <<1, 0, 0>>,
     <<-1, 0, 0>>, <<-1, 0, 0>>, <<-1, 0, 0>>, <<-1, 0, 0>>,
     <<0, 0, 1>>,  <<0, 0, 1>>,  <<0, 0, 1>>,  <<0, 0, 1>>,
     <<0, 0, -1>>, <<0, 0, -1>>, <<0, 0, -1>>, <<0, 0, -1>> >>

CubeIndices_flipped ==
  << 0, 3, 1,    1, 3, 2,
     4, 5, 7,    5, 6, 7,
     8, 11, 9,   9, 11, 10,
     12, 13, 15, 13, 14, 15,
     16, 19, 17, 17, 19, 18,
     20, 23, 21, 21, 22, 23 >>

CubeIndices ==
  << 0, 3, 1,    1, 3, 2,
     4, 5, 7,    5, 6, 7,
     8, 11, 9,   9, 11, 10,
     12, 13, 15, 13, 14, 15,
     16, 19, 17, 17, 19, 18,
     20, 21, 23, 21, 22, 23 >>

create_cube_mesh ==
  [positions |-> CubePositions, normals |-> CubeNormals, uvs |-> CubeUvs,
   indices |-> CubeIndices]

CreateCubeMesh ==
  /\ cube_mesh = <<>>
  /\ cube_mesh' = <<create_cube_mesh>>
  /\ UNCHANGED <<CHUNK_SIZE, chunk_position, overflow_checks, pc, x, y, z,
                 noise_value, noise_point, chunk_data, cursor, vertices, indices,
                 normals, uvs, chunk_mesh, stats, fault>>

\* ---- specifications ----

Next ==
  \/ Generate
  \/ GenerateDone
  \/ Classify
  \/ ClassifyDone
  \/ EmitQuad
  \/ MeshDone
  \/ Stats

\* create_chunk_mesh, as setup calls it
Spec == Init /\ [][Next]_vars

CubeNext ==
  \/ Next
  \/ CreateCubeMesh

\* setup's call create_chunk_mesh(IVec3::new(0, 0, 0))
SetupInit == Init /\ chunk_position = <<0, 0, 0>>

\* the chunk mesh of setup together with a call of create_cube_mesh
CubeSpec == SetupInit /\ [][CubeNext]_vars

\* ---- geometry used by the properties ----

Faces == {"Top", "Bottom", "Left", "Right", "Front", "Back"}

\* Right = +X, Left = -X, Top = +Y, Bottom = -Y, Front = +Z, Back = -Z
Unit(d) ==
  CASE d = "Right"  -> <<1, 0, 0>>
    [] d = "Left"   -> <<-1, 0, 0>>
    [] d = "Top"    -> <<0, 1, 0>>
    [] d = "Bottom" -> <<0, -1, 0>>
    [] d = "Front"  -> <<0, 0, 1>>
    [] d = "Back"   -> <<0, 0, -1>>

Range(f) == { f[k] : k \in 1..Len(f) }

Cube3 == CHUNK_SIZE * CHUNK_SIZE * CHUNK_SIZE

\* the exact value of l + c * CHUNK_SIZE
ExactWorld(l, c) == WAdd(WMul(Wide(c), CHUNK_SIZE), l)

\* the generation loop counters the n-th pushed block (1-based) was made with
LocalOf(n) ==
  << (n - 1) \div (CHUNK_SIZE * CHUNK_SIZE),
     ((n - 1) \div CHUNK_SIZE) % CHUNK_SIZE,
     (n - 1) % CHUNK_SIZE >>

\* q = p + u, componentwise, compared without overflow
IsOffset(q, p, u) == \A k \in 1..3 : Wide(q[k]) = WAdd(Wide(p[k]), u[k])

\* difference of two f32 values, in halves
WDiff(a, b) == (a[1] - b[1]) * B16 + (a[2] - b[2])

VDiff(a, b) == <<WDiff(a[1], b[1]), WDiff(a[2], b[2]), WDiff(a[3], b[3])>>

Cross(u, v) ==
  << u[2] * v[3] - u[3] * v[2],
     u[3] * v[1] - u[1] * v[3],
     u[1] * v[2] - u[2] * v[1] >>

Dot(u, v) == u[1] * v[1] + u[2] * v[2] + u[3] * v[3]

\* u is a positive multiple of v
SameDirection(u, v) == Cross(u, v) = <<0, 0, 0>> /\ Dot(u, v) > 0

\* the triangle indices[t], indices[t+1], indices[t+2] (0-based vertex
\* numbers) is counter-clockwise seen from the side normal n faces
Outward(m, t, n) ==
  LET a == m.positions[m.indices[t] + 1]
      b == m.positions[m.indices[t + 1] + 1]
      c == m.positions[m.indices[t + 2] + 1]
  IN SameDirection(Cross(VDiff(b, a), VDiff(c, a)), n)

Built == pc \in {"classify", "mesh", "stats", "done"}

Classified == pc \in {"mesh", "stats", "done"}

IsolatedDirt(n) ==
  /\ chunk_data[n].block_type = "Dirt"
  /\ chunk_data[n].block_intersections = <<>>

\* ---- properties ----

\* C1: create_chunk_mesh emits one quad for each Dirt block whose
\* block_intersections is empty and nothing for any other block: after the
\* first `cursor` blocks the buffers hold one quad per isolated Dirt block
\* among them, and the returned mesh has as many quads as there are
\* isolated Dirt blocks.
C1_QuadsAreIsolatedDirt ==
  /\ pc = "mesh" =>
       Len(vertices) = 4 * Cardinality({ n \in 1..cursor : IsolatedDirt(n) })
  /\ pc = "done" =>
       Len(chunk_mesh.positions) =
         4 * Cardinality({ n \in 1..Len(chunk_data) : IsolatedDirt(n) })

\* C2: after generation chunk_data holds CHUNK_SIZE^3 blocks and the block at
\* index x + y*S + z*S^2 has block_position chunk_position*S + (x, y, z).
C2_GridAddressing ==
  Built =>
    /\ Len(chunk_data) = Cube3
    /\ \A a, b, c \in 0..(CHUNK_SIZE - 1) :
         LET p == chunk_data[Index(a, b, c) + 1].block_position
         IN /\ Wide(p[1]) = ExactWorld(a, chunk_position[1])
            /\ Wide(p[2]) = ExactWorld(b, chunk_position[2])
            /\ Wide(p[3]) = ExactWorld(c, chunk_position[3])

\* C3: after classification, for every Dirt block v and direction d, d is in
\* v.block_intersections exactly when the block whose block_position is
\* v.block_position + Unit(d) is in the chunk and is Dirt.
C3_DirectionsMatchPositions ==
  Classified =>
    \A n \in 1..Len(chunk_data) :
      chunk_data[n].block_type = "Dirt" =>
        \A d \in Faces :
          (d \in Range(chunk_data[n].block_intersections))
            <=> (\E m \in 1..Len(chunk_data) :
                   /\ chunk_data[m].block_type = "Dirt"
                   /\ IsOffset(chunk_data[m].block_position,
                               chunk_data[n].block_position, Unit(d)))

\* the mesh invariants of four buffers
MeshInvariants(vs, ns, us, is) ==
  /\ Len(vs) = Len(ns)
  /\ Len(ns) = Len(us)
  /\ Len(vs) % 4 = 0
  /\ Len(is) = (Len(vs) \div 4) * 6
  /\ \A k \in 1..Len(is) : is[k] >= 0 /\ is[k] < Len(vs)
  /\ \A q \in 0..((Len(vs) \div 4) - 1) :
       /\ 6 * q + 6 <= Len(is)
       /\ SubSeq(is, 6 * q + 1, 6 * q + 6) =
            <<4 * q, 4 * q + 1, 4 * q + 2, 4 * q, 4 * q + 2, 4 * q + 3>>

\* C4: the buffers satisfy the mesh invariants after every quad emission step
\* and in the returned mesh: equal lengths, a multiple of 4 vertices, 6 indices
\* per quad, every index below the vertex count, and the k-th quad indexed
\* 4k, 4k+1, 4k+2, 4k, 4k+2, 4k+3.
C4_MeshInvariants ==
  /\ Classified => MeshInvariants(vertices, normals, uvs, indices)
  /\ pc = "done" =>
       MeshInvariants(chunk_mesh.positions, chunk_mesh.normals, chunk_mesh.uvs,
                      chunk_mesh.indices)

C4_Witness ==
  /\ pc = "done"
  /\ Len(chunk_mesh.positions) >= 8
  /\ Len(chunk_mesh.indices) >= 12

\* C5: every quad of the returned mesh is wound front-face outward: for both
\* triangles (a, b, c) the cross product (b - a) x (c - a) points the way of
\* the normal stored for the quad's vertices.
C5_QuadsWoundOutward ==
  pc = "done" =>
    \A q \in 0..((Len(chunk_mesh.positions) \div 4) - 1) :
      /\ Outward(chunk_mesh, 6 * q + 1, chunk_mesh.normals[4 * q + 1])
      /\ Outward(chunk_mesh, 6 * q + 4, chunk_mesh.normals[4 * q + 1])

AxisUnits ==
  { <<1, 0, 0>>, <<-1, 0, 0>>, <<0, 1, 0>>, <<0, -1, 0>>, <<0, 0, 1>>, <<0, 0, -1>> }

\* a position, in halves, as a vector of integers
Halves(p) == <<ToInt(p[1]), ToInt(p[2]), ToInt(p[3])>>

\* C6: create_cube_mesh returns 24 positions, 24 normals, 24 uvs, 36 indices;
\* each face f has one unit axis normal on its four vertices, its positions on
\* the side at +0.5 along that normal, triangles that use only its own
\* vertices and are counter-clockwise seen from outside, and the uvs
\* (0,0), (1,0), (1,1), (0,1).
C6_CanonicalCube ==
  cube_mesh # <<>> =>
    /\ Len(cube_mesh[1].positions) = 24
    /\ Len(cube_mesh[1].normals) = 24
    /\ Len(cube_mesh[1].uvs) = 24
    /\ Len(cube_mesh[1].indices) = 36
    /\ \A f \in 0..5 :
         LET n == cube_mesh[1].normals[4 * f + 1]
         IN /\ n \in AxisUnits
            /\ \A k \in 1..4 :
                 /\ cube_mesh[1].normals[4 * f + k] = n
                 /\ Dot(Halves(cube_mesh[1].positions[4 * f + k]), n) = 1
                 /\ \A c \in 1..3 :
                      ToInt(cube_mesh[1].positions[4 * f + k][c]) \in {-1, 1}
            /\ \A k \in 1..6 : cube_mesh[1].indices[6 * f + k] \in (4 * f)..(4 * f + 3)
            /\ Outward(cube_mesh[1], 6 * f + 1, n)
            /\ Outward(cube_mesh[1], 6 * f + 4, n)
            /\ SubSeq(cube_mesh[1].uvs, 4 * f + 1, 4 * f + 4) =
                 << <<0, 0>>, <<1, 0>>, <<1, 1>>, <<0, 1>> >>

C6_Witness == cube_mesh # <<>> /\ pc = "done"

\* C7: with chunk size 0 create_chunk_mesh completes without a fault, returns
\* four empty buffers, runs no loop body (no CHUNK_SIZE - 1, no indexing),
\* and the average-intersections division is not evaluated with a zero
\* voxel count.
C7_EmptyChunkGuarded ==
  CHUNK_SIZE = 0 =>
    /\ pc # "panicked"
    /\ fault = None
    /\ chunk_data = <<>>
    /\ pc = "done" =>
         /\ chunk_mesh = EmptyMesh
         /\ stats.average_intersections.class # "NaN"

\* C8: every block_position component stored equals the exact value of
\* local + chunk_position * CHUNK_SIZE (otherwise generation has stopped with
\* an overflow failure and stored nothing for that cell).
C8_NoWrappedCoordinate ==
  \A n \in 1..Len(chunk_data) :
    \A k \in 1..3 :
      Wide(chunk_data[n].block_position[k]) =
        ExactWorld(LocalOf(n)[k], chunk_position[k])

\* C9: at every step of the classification loop chunk_data holds all S^3
\* blocks, and the current cell index and every neighbour index that passes
\* its edge test lie in [0, S^3).
C9_TwoPhase ==
  pc = "classify" =>
    /\ Len(chunk_data) = Cube3
    /\ CHUNK_SIZE >= 1 =>
         \A a, b, c \in 0..(CHUNK_SIZE - 1) :
           /\ Index(a, b, c) \in 0..(Cube3 - 1)
           /\ \A k \in 1..6 :
                NeighbourChecks(a, b, c)[k].inside =>
                  NeighbourChecks(a, b, c)[k].index \in 0..(Cube3 - 1)
    /\ x < CHUNK_SIZE => InBounds(Index(x, y, z))

C9_Witness ==
  /\ pc = "classify"
  /\ CHUNK_SIZE >= 2
  /\ x = CHUNK_SIZE - 1 /\ y = 0 /\ z = 0
  /\ chunk_data[Index(x, y, z) + 1].block_type = "Dirt"
  /\ chunk_data[Index(x, y, z)].block_type = "Dirt"

\* C10: a block is Dirt exactly when the noise sample taken at its own
\* block_position is strictly greater than the threshold; a sample equal to
\* the threshold, or smaller, gives Air.
C10_StrictThreshold ==
  (pc = "generate" /\ noise_value # <<>>) =>
    LET b == chunk_data[Len(chunk_data)]
    IN /\ b.block_position = noise_point
       /\ (b.block_type = "Dirt") <=> (noise_value[1] > NOISE_THRESHOLD)
       /\ (noise_value[1] <= NOISE_THRESHOLD) => (b.block_type = "Air")

C10_Witness ==
  /\ pc = "generate"
  /\ noise_value = <<NOISE_THRESHOLD>>
  /\ chunk_data[Len(chunk_data)].block_type = "Air"
  /\ DirtCount >= 1

\* q = p + u componentwise in i32 arithmetic (the sum taken modulo 2^32, so
\* that positions stored by a wrapping build compare as the i32 values they are)
IsI32Offset(q, p, u) == \A k \in 1..3 : Wide(q[k]) = Wrap(WAdd(Wide(p[k]), u[k]))

\* some Dirt block of the chunk has a block_position that differs from block
\* n's by exactly 1 along exactly one axis
HasDirtNeighbour(n) ==
  \E m \in 1..Len(chunk_data) :
    /\ chunk_data[m].block_type = "Dirt"
    /\ \E d \in Faces :
         IsI32Offset(chunk_data[m].block_position, chunk_data[n].block_position,
                     Unit(d))

====
